---- MODULE Spec2Model ----
(***************************************************************************)
(* A model of excel_diff.py: the value equality oracle (equal_values),     *)
(* the cell diff engine (iter_diff_cells), the workbook comparator         *)
(* (compare_workbooks), the summary builder (add_summary_sheet) and the    *)
(* command line driver (main).                                             *)
(*                                                                         *)
(* Cell values are records [t, n, s]: t is the Python type of the value,   *)
(* n its number and s its text.  Numbers are fixed-point: an int carries   *)
(* its value in n, a float carries its value in hundredths.  Texts are     *)
(* sequences of one-character strings.  Date/time cells are outside the    *)
(* value domain of the model.                                              *)
(***************************************************************************)
EXTENDS Integers, Sequences, FiniteSets, TLC

VARIABLES pc,
          arg_a, arg_b, eq_ab, eq_ba,
          tolerance, trim_whitespace, case_insensitive,
          base_ws, new_ws, yielded,
          base_file, new_file,
          include_sheets, exclude_sheets, highlight,
          base_wb, new_wb_values, new_wb_out,
          compared, diffs, out_file, out_writes,
          arg_include, arg_exclude, error, exit_code

eqVars == <<arg_a, arg_b, eq_ab, eq_ba>>
cfgVars == <<tolerance, trim_whitespace, case_insensitive>>
cellVars == <<base_ws, new_ws, yielded>>
fileVars == <<base_file, new_file>>
optVars == <<include_sheets, exclude_sheets, highlight>>
loadVars == <<base_wb, new_wb_values>>
runVars == <<new_wb_out, compared, diffs>>
outVars == <<out_file, out_writes>>
mainVars == <<arg_include, arg_exclude, error, exit_code>>

vars == <<pc, eqVars, cfgVars, cellVars, fileVars, optVars, loadVars,
          runVars, outVars, mainVars>>

(***************************************************************************)
(* Bounds of the value domain.                                             *)
(***************************************************************************)
MaxStrLen == 2
MaxInt == 2
MaxCol == 2
MaxSuffix == 2

Chars == {" ", "a", "A", "1"}

Texts == UNION {[1..k -> Chars] : k \in 0..MaxStrLen}

(***************************************************************************)
(* Cell values.                                                            *)
(***************************************************************************)
NoneV == [t |-> "none", n |-> 0, s |-> <<>>]
StrV(s) == [t |-> "str", n |-> 0, s |-> s]
IntV(n) == [t |-> "int", n |-> n, s |-> <<>>]
FloatV(h) == [t |-> "float", n |-> h, s |-> <<>>]
BoolV(b) == [t |-> "bool", n |-> IF b THEN 1 ELSE 0, s |-> <<>>]

Numbers ==
    {IntV(n) : n \in (0..MaxInt) \cup {100}}
        \cup {FloatV(h) : h \in {100, 105, 10004, 10005}}

Values ==
    {NoneV} \cup {BoolV(b) : b \in BOOLEAN} \cup Numbers
        \cup {StrV(s) : s \in Texts}

Tolerances == {0, 1, 5, 100}

(***************************************************************************)
(* Python primitives used by the program.                                  *)
(***************************************************************************)
Abs(x) == IF x < 0 THEN -x ELSE x

\* The numeric value of a bool, int or float, in hundredths.
Hundredths(v) == IF v.t = "float" THEN v.n ELSE 100 * v.n

\* Python's a == b on cell values: None equals only None, a text equals
\* only the same text, and bool, int and float compare by numeric value.
PyEq(x, y) ==
    CASE x.t = "none" -> y.t = "none"
      [] x.t = "str" -> y.t = "str" /\ x.s = y.s
      [] OTHER -> y.t \in {"bool", "int", "float"}
                    /\ Hundredths(x) = Hundredths(y)

DigitChar(d) ==
    CASE d = 0 -> "0" [] d = 1 -> "1" [] d = 2 -> "2" [] d = 3 -> "3"
      [] d = 4 -> "4" [] d = 5 -> "5" [] d = 6 -> "6" [] d = 7 -> "7"
      [] d = 8 -> "8" [] d = 9 -> "9"

RECURSIVE Digits(_)
Digits(n) ==
    IF n < 10 THEN <<DigitChar(n)>>
    ELSE Digits(n \div 10) \o <<DigitChar(n % 10)>>

\* Python's str(x): the decimal rendering of a number (a float keeps at
\* least one fractional digit), "True"/"False" for a bool, a text as is.
PyStr(v) ==
    CASE v.t = "str" -> v.s
      [] v.t = "bool" -> IF v.n = 1 THEN <<"T", "r", "u", "e">>
                         ELSE <<"F", "a", "l", "s", "e">>
      [] v.t = "int" -> Digits(v.n)
      [] v.t = "float" ->
            Digits(v.n \div 100) \o <<".">> \o
                (IF v.n % 10 = 0 THEN <<DigitChar((v.n % 100) \div 10)>>
                 ELSE <<DigitChar((v.n % 100) \div 10), DigitChar(v.n % 10)>>)
      [] v.t = "none" -> <<"N", "o", "n", "e">>

IsSpace(c) == c = " "

RECURSIVE LStrip(_)
LStrip(s) ==
    IF s # <<>> /\ IsSpace(Head(s)) THEN LStrip(Tail(s)) ELSE s

RECURSIVE RStrip(_)
RStrip(s) ==
    IF s # <<>> /\ IsSpace(s[Len(s)])
    THEN RStrip(SubSeq(s, 1, Len(s) - 1)) ELSE s

\* str.strip()
Strip(s) == RStrip(LStrip(s))

LowerChar(c) ==
    CASE c = "A" -> "a" [] c = "T" -> "t" [] c = "F" -> "f"
      [] c = "N" -> "n" [] OTHER -> c

\* str.lower()
Lower(s) == [i \in 1..Len(s) |-> LowerChar(s[i])]

(***************************************************************************)
(* The value equality oracle.                                              *)
(***************************************************************************)
is_number(x) == x.t \in {"int", "float"}

normalize_str(v, trim, fold) ==
    IF v.t = "none" THEN NoneV
    ELSE IF v.t # "str" THEN v
    ELSE LET out == IF trim THEN Strip(v.s) ELSE v.s
         IN  StrV(IF fold THEN Lower(out) ELSE out)

\* str(x) if x is not None else None
StrOrNone(x) == IF x.t = "none" THEN NoneV ELSE StrV(PyStr(x))

\* equal_values with the tolerance boundary excluded (< for <=).
equal_values_exclusive(x, y, tol, trim, fold) ==
    IF PyEq(x, y) THEN TRUE
    ELSE IF is_number(x) /\ is_number(y)
         THEN Abs(Hundredths(x) - Hundredths(y)) < tol
    ELSE IF x.t = "str" \/ y.t = "str"
         THEN PyEq(normalize_str(StrOrNone(x), trim, fold),
                   normalize_str(StrOrNone(y), trim, fold))
    ELSE FALSE

\* equal_values normalising its first argument only.
equal_values_one_sided(x, y, tol, trim, fold) ==
    IF PyEq(x, y) THEN TRUE
    ELSE IF is_number(x) /\ is_number(y)
         THEN Abs(Hundredths(x) - Hundredths(y)) <= tol
    ELSE IF x.t = "str" \/ y.t = "str"
         THEN PyEq(normalize_str(StrOrNone(x), trim, fold),
                   StrOrNone(y))
    ELSE FALSE

equal_values(x, y, tol, trim, fold) ==
    IF PyEq(x, y) THEN TRUE
    ELSE IF is_number(x) /\ is_number(y)
         THEN Abs(Hundredths(x) - Hundredths(y)) <= tol
    ELSE IF x.t = "str" \/ y.t = "str"
         THEN PyEq(normalize_str(StrOrNone(x), trim, fold),
                   normalize_str(StrOrNone(y), trim, fold))
    ELSE FALSE


(***************************************************************************)
(* The grid accessor.  A sheet is [max_row, max_col, cells, merged_cells]: *)
(* cells maps every coordinate <<row, col>> of the used range to a value   *)
(* and merged_cells is the set of declared merged ranges.                  *)
(***************************************************************************)
RowRange == 1..2
ColRange == 1..MaxCol

Letters == <<"A", "B", "C", "D", "E", "F", "G", "H", "I", "J", "K", "L", "M",
             "N", "O", "P", "Q", "R", "S", "T", "U", "V", "W", "X", "Y", "Z">>

\* openpyxl.utils.get_column_letter, for the single-letter columns.
get_column_letter(c) == <<Letters[c]>>

\* openpyxl.utils.cell.column_index_from_string, for single-letter columns.
column_index_from_string(ls) ==
    CHOOSE i \in 1..Len(Letters) : Letters[i] = ls[1]

IsAlpha(ch) == \E i \in 1..Len(Letters) : Letters[i] = ch
IsDigit(ch) == \E d \in 0..9 : DigitChar(d) = ch

RECURSIVE ParseInt(_)
\* int() of a sequence of decimal digits.
ParseInt(ds) ==
    IF ds = <<>> THEN 0
    ELSE 10 * ParseInt(SubSeq(ds, 1, Len(ds) - 1))
            + (CHOOSE d \in 0..9 : DigitChar(d) = ds[Len(ds)])

\* Worksheet.calculate_dimension(): "A1:<last column><last row>".
calculate_dimension(ws) ==
    <<"A", "1", ":">> \o get_column_letter(ws.max_col) \o Digits(ws.max_row)

\* cell_coord(row, col): column letters followed by the row number.
cell_coord(r, c) == get_column_letter(c) \o Digits(r)

\* The text after the first ':' of dim, or dim itself when it has none.
AfterColon(dim) ==
    IF \E i \in 1..Len(dim) : dim[i] = ":"
    THEN LET i == CHOOSE j \in 1..Len(dim) :
                    dim[j] = ":" /\ \A k \in 1..(j - 1) : dim[k] # ":"
         IN  SubSeq(dim, i + 1, Len(dim))
    ELSE dim

\* sheet_used_bounds(ws): <<max_row, max_col>> read off the dimension text.
sheet_used_bounds(ws) ==
    LET br == AfterColon(calculate_dimension(ws))
        col_letters == SelectSeq(br, IsAlpha)
        row_digits == SelectSeq(br, IsDigit)
    IN  << IF row_digits # <<>> THEN ParseInt(row_digits) ELSE 1,
           IF col_letters # <<>> THEN column_index_from_string(col_letters)
           ELSE 1 >>

\* ws.cell(row=r, column=c).value: a cell outside the used range is None.
value_at(ws, r, c) ==
    IF <<r, c>> \in DOMAIN ws.cells THEN ws.cells[<<r, c>>] ELSE NoneV

\* merged_non_anchors restricted to the ranges declared in the first row.
merged_non_anchors_first_row(ws) ==
    UNION { { <<r, c>> : r \in mr.min_row..mr.max_row,
                         c \in mr.min_col..mr.max_col }
                \ { <<mr.min_row, mr.min_col>> } :
            mr \in {m \in ws.merged_cells : m.min_row = 1} }

merged_non_anchors(ws) ==
    UNION { { <<r, c>> : r \in mr.min_row..mr.max_row,
                         c \in mr.min_col..mr.max_col }
                \ { <<mr.min_row, mr.min_col>> } :
            mr \in ws.merged_cells }

(***************************************************************************)
(* The cell diff engine.  iter_diff_cells is the sequence of the tuples    *)
(* <<row, col, status>> the generator yields, in the order it yields them. *)
(***************************************************************************)
Max(x, y) == IF x >= y THEN x ELSE y

\* a is None or a == ''
IsEmpty(v) == v.t = "none" \/ (v.t = "str" /\ v.s = <<>>)

\* The loop body of iter_diff_cells at one coordinate: the tuples yielded.
DiffAt(bws, nws, r, c, tol, trim, fold, skip) ==
    LET va == value_at(bws, r, c)
        vb == value_at(nws, r, c)
    IN  IF <<r, c>> \in skip THEN <<>>
        ELSE IF IsEmpty(va) /\ IsEmpty(vb) THEN <<>>
        ELSE IF IsEmpty(va) /\ ~IsEmpty(vb) THEN << <<r, c, "added">> >>
        ELSE IF IsEmpty(vb) /\ ~IsEmpty(va) THEN << <<r, c, "removed">> >>
        ELSE IF ~equal_values(va, vb, tol, trim, fold)
             THEN << <<r, c, "changed">> >>
        ELSE <<>>

RECURSIVE DiffScan(_, _, _, _, _, _, _, _, _)
\* The row-major loop over 1..max_r x 1..max_c, from the k-th coordinate on.
DiffScan(bws, nws, k, max_r, max_c, tol, trim, fold, skip) ==
    IF k >= max_r * max_c THEN <<>>
    ELSE DiffAt(bws, nws, (k \div max_c) + 1, (k % max_c) + 1,
                tol, trim, fold, skip)
            \o DiffScan(bws, nws, k + 1, max_r, max_c, tol, trim, fold, skip)

\* iter_diff_cells testing emptiness on the normalised values.
iter_diff_cells_normalised_empty(bws, nws, tol, trim, fold) ==
    LET norm(ws) ==
            [ws EXCEPT !.cells =
                [p \in DOMAIN ws.cells |->
                    normalize_str(ws.cells[p], trim, fold)]]
        bb == sheet_used_bounds(bws)
        nb == sheet_used_bounds(nws)
    IN  DiffScan(norm(bws), norm(nws), 0, Max(bb[1], nb[1]), Max(bb[2], nb[2]),
                 tol, trim, fold,
                 merged_non_anchors(bws) \cup merged_non_anchors(nws))

iter_diff_cells(bws, nws, tol, trim, fold) ==
    LET bb == sheet_used_bounds(bws)
        nb == sheet_used_bounds(nws)
    IN  DiffScan(bws, nws, 0, Max(bb[1], nb[1]), Max(bb[2], nb[2]),
                 tol, trim, fold,
                 merged_non_anchors(bws) \cup merged_non_anchors(nws))

(***************************************************************************)
(* Workbooks.  A workbook is the sequence of its sheets in workbook order; *)
(* a sheet entry is [title, ws, fills, summary]: ws is the grid, fills     *)
(* maps the highlighted coordinates to their fill and summary holds the    *)
(* rows appended to a summary sheet (<<>> on every other sheet).           *)
(***************************************************************************)
sheetnames(wb) == {wb[i].title : i \in DOMAIN wb}

\* wb[s]
SheetOf(wb, s) == wb[CHOOSE i \in DOMAIN wb : wb[i].title = s]

\* The sheet names of the comparison inputs, in code-point order.
NameOrder == <<"A", "B", "C">>

Rank(s) == CHOOSE i \in DOMAIN NameOrder : NameOrder[i] = s

RECURSIVE sorted(_)
\* sorted(S) for a set of sheet names.
sorted(S) ==
    IF S = {} THEN <<>>
    ELSE LET m == CHOOSE x \in S : \A y \in S : Rank(x) <= Rank(y)
         IN  <<m>> \o sorted(S \ {m})

\* An optional set is <<>> for None and <<S>> for the set S; Truthy is
\* Python's truth value of it: None and the empty set are both false.
Truthy(opt) == opt # <<>> /\ opt[1] # {}

\* Selected with an empty include set restricting everything.
Selected_empty_restricts(s, inc, exc) ==
    /\ ~(inc # <<>> /\ s \notin inc[1])
    /\ ~(Truthy(exc) /\ s \in exc[1])

\* The filter applied to every sheet name (lines 254-257, 263-266, 269-272).
Selected(s, inc, exc) ==
    /\ ~(Truthy(inc) /\ s \notin inc[1])
    /\ ~(Truthy(exc) /\ s \in exc[1])

to_compare(bwb, nwb, inc, exc) ==
    SelectSeq(sorted(sheetnames(bwb) \cap sheetnames(nwb)),
              LAMBDA s : Selected(s, inc, exc))

DiffRecord(sheet, cell, status, old, new) ==
    [sheet |-> sheet, cell |-> cell, status |-> status, old |-> old, new |-> new]

\* The sheet-level records of the names in S, in sorted order.
MissingRecords(S, status, inc, exc) ==
    LET names == SelectSeq(sorted(S), LAMBDA s : Selected(s, inc, exc))
    IN  [i \in DOMAIN names |-> DiffRecord(names[i], <<>>, status, NoneV, NoneV)]

\* The records appended at lines 283-290 for the tuples ys of sheet s.
RecordsOf(bws, nws, s, ys) ==
    [i \in DOMAIN ys |->
        DiffRecord(s, cell_coord(ys[i][1], ys[i][2]), ys[i][3],
                   value_at(bws, ys[i][1], ys[i][2]),
                   value_at(nws, ys[i][1], ys[i][2]))]

\* CellRecords with the old value of an added cell forced to None.
CellRecords_old_none(bwb, nwb, s, tol, trim, fold) ==
    LET recs == RecordsOf(SheetOf(bwb, s).ws, SheetOf(nwb, s).ws, s,
                          iter_diff_cells(SheetOf(bwb, s).ws,
                                          SheetOf(nwb, s).ws, tol, trim, fold))
    IN  [i \in DOMAIN recs |->
            IF recs[i].status = "added" THEN [recs[i] EXCEPT !.old = NoneV]
            ELSE recs[i]]

\* CellRecords in reverse order.
CellRecords_reversed(bwb, nwb, s, tol, trim, fold) ==
    LET recs == RecordsOf(SheetOf(bwb, s).ws, SheetOf(nwb, s).ws, s,
                          iter_diff_cells(SheetOf(bwb, s).ws,
                                          SheetOf(nwb, s).ws, tol, trim, fold))
    IN  [i \in DOMAIN recs |-> recs[Len(recs) + 1 - i]]

\* The cell-level records of sheet s, one per tuple iter_diff_cells yields.
CellRecords(bwb, nwb, s, tol, trim, fold) ==
    RecordsOf(SheetOf(bwb, s).ws, SheetOf(nwb, s).ws, s,
              iter_diff_cells(SheetOf(bwb, s).ws, SheetOf(nwb, s).ws,
                              tol, trim, fold))

RECURSIVE AllCellRecords(_, _, _, _, _, _)
\* The loop of lines 276-290 over the sheets in names.
AllCellRecords(bwb, nwb, names, tol, trim, fold) ==
    IF names = <<>> THEN <<>>
    ELSE CellRecords(bwb, nwb, Head(names), tol, trim, fold)
            \o AllCellRecords(bwb, nwb, Tail(names), tol, trim, fold)

\* The list diffs at line 301.
CompareDiffs(bwb, nwb, inc, exc, tol, trim, fold) ==
    MissingRecords(sheetnames(bwb) \ sheetnames(nwb), "missing_sheet_new",
                   inc, exc)
        \o MissingRecords(sheetnames(nwb) \ sheetnames(bwb),
                          "missing_sheet_base", inc, exc)
        \o AllCellRecords(bwb, nwb, to_compare(bwb, nwb, inc, exc),
                          tol, trim, fold)

FillOf(status) ==
    CASE status = "added" -> "FILL_ADDED"
      [] status = "removed" -> "FILL_REMOVED"
      [] status = "changed" -> "FILL_CHANGED"

\* The output copy after the highlighting of lines 292-299.
Highlighted(out, bwb, nwb, names, hl, tol, trim, fold) ==
    [i \in DOMAIN out |->
        IF hl /\ \E k \in DOMAIN names : names[k] = out[i].title
        THEN LET ys == iter_diff_cells(SheetOf(bwb, out[i].title).ws,
                                       SheetOf(nwb, out[i].title).ws,
                                       tol, trim, fold)
             IN  [out[i] EXCEPT !.fills =
                    [p \in {<<ys[k][1], ys[k][2]>> : k \in DOMAIN ys} |->
                        FillOf(ys[CHOOSE k \in DOMAIN ys :
                                    <<ys[k][1], ys[k][2]>> = p][3])]]
        ELSE out[i]]

(***************************************************************************)
(* The summary builder.                                                    *)
(***************************************************************************)
Suffixed(name, i) == name \o "_" \o ToString(i)

RECURSIVE FirstFree(_, _, _)
\* The while loop of lines 193-195.
FirstFree(wb, name, i) ==
    IF Suffixed(name, i) \in sheetnames(wb) THEN FirstFree(wb, name, i + 1)
    ELSE Suffixed(name, i)

\* ensure_unique_sheet_name trying the suffix _1 only.
ensure_unique_sheet_name_first_suffix(wb, name) ==
    IF name \notin sheetnames(wb) THEN name ELSE Suffixed(name, 1)

ensure_unique_sheet_name(wb, name) ==
    IF name \notin sheetnames(wb) THEN name ELSE FirstFree(wb, name, 1)

SummaryHeaders == <<"Sheet", "Cell", "Status", "Old Value", "New Value">>

\* The rows appended at lines 206-209.
SummaryRows(ds) ==
    <<SummaryHeaders>> \o
        [i \in DOMAIN ds |->
            <<ds[i].sheet, ds[i].cell, ds[i].status, ds[i].old, ds[i].new>>]

\* wb.remove(wb[title])
RemoveSheet(wb, title) == SelectSeq(wb, LAMBDA sh : sh.title # title)

\* wb.create_sheet(title, 0) followed by the appends.
add_summary_sheet(wb, ds) ==
    LET title == ensure_unique_sheet_name(wb, "Diff_Summary")
        kept == IF title \in sheetnames(wb) THEN RemoveSheet(wb, title) ELSE wb
        ws == [title |-> title, ws |-> [max_row |-> 1, max_col |-> 1,
                                        cells |-> [p \in {<<1, 1>>} |-> NoneV],
                                        merged_cells |-> {}],
               fills |-> <<>>, summary |-> SummaryRows(ds)]
    IN  <<ws>> \o kept

\* parse_csv_set on the comma-separated items of an option: <<>> is an
\* option that was not given, <<items>> one that was; an item "" is one that
\* strips to nothing.
parse_csv_set(v) ==
    IF v = <<>> THEN <<>>
    ELSE LET items == {v[1][i] : i \in DOMAIN v[1]} \ {""}
         IN  IF items # {} THEN <<items>> ELSE <<>>

(***************************************************************************)
(* Input domains of the sheet-level specifications.                        *)
(***************************************************************************)
CellPool ==
    {StrV(<<>>), StrV(<<" ">>), StrV(<<"a">>), StrV(<<"A">>),
     IntV(100), FloatV(10004)}

CellTolerances == {0, 5}

\* The grids over R rows and C columns with at most one cell that is not None.
SparseCells(R, C) ==
    LET coords == (1..R) \X (1..C)
    IN  {[p \in coords |-> NoneV]}
            \cup {[p \in coords |-> IF p = q THEN v ELSE NoneV] :
                      q \in coords, v \in CellPool}

\* The merged ranges of more than one cell.
Regions ==
    {mr \in [min_row : RowRange, min_col : ColRange,
             max_row : RowRange, max_col : ColRange] :
        /\ mr.min_row <= mr.max_row
        /\ mr.min_col <= mr.max_col
        /\ <<mr.min_row, mr.min_col>> # <<mr.max_row, mr.max_col>>}

PlainSheets ==
    UNION {{[max_row |-> R, max_col |-> C, cells |-> f, merged_cells |-> {}] :
                f \in SparseCells(R, C)} : R \in RowRange, C \in ColRange}

\* The sheets declaring one merged range: their used range is the full grid
\* and their one cell that is not None, if any, holds "a".
MergedSheets ==
    {[sh EXCEPT !.merged_cells = {mr}] :
        sh \in {p \in PlainSheets :
                  /\ p.max_row = 2
                  /\ p.max_col = MaxCol
                  /\ \A q \in DOMAIN p.cells :
                        p.cells[q] \in {NoneV, StrV(<<"a">>)}},
        mr \in Regions}

Sheets == PlainSheets \cup MergedSheets

EmptySheet ==
    [max_row |-> 1, max_col |-> 1, cells |-> [p \in {<<1, 1>>} |-> NoneV],
     merged_cells |-> {}]

\* A sheet entry of a workbook read from a file.
Entry(title, ws) == [title |-> title, ws |-> ws, fills |-> <<>>, summary |-> <<>>]

\* The grid with value v at (r, c) and None elsewhere, over the full range.
OneCell(r, c, v) ==
    [max_row |-> 2, max_col |-> MaxCol,
     cells |-> [p \in (1..2) \X (1..MaxCol) |-> IF p = <<r, c>> THEN v ELSE NoneV],
     merged_cells |-> {}]

ComparePool ==
    {OneCell(1, 2, StrV(<<"a">>)), OneCell(2, 1, StrV(<<"a">>)),
     OneCell(1, 2, StrV(<<>>))}

RECURSIVE WorkbooksOver(_, _)
\* The workbooks holding a subset of the names in the sequence names, in
\* that order, with grids from pool.
WorkbooksOver(names, pool) ==
    IF names = <<>> THEN {<<>>}
    ELSE LET rest == WorkbooksOver(Tail(names), pool)
         IN  rest \cup {<<Entry(Head(names), ws)>> \o wb :
                            ws \in pool, wb \in rest}

\* Workbook order need not be sorted order: the files list C, B, A.
CompareWorkbooksIn == WorkbooksOver(<<"C", "B", "A">>, ComparePool) \ {<<>>}

IncludeOptions == {<<>>, <<{}>>, <<{"A", "B"}>>}
ExcludeOptions == {<<>>, <<{}>>, <<{"B"}>>}

SummaryNames ==
    {"Diff_Summary", "Data"}
        \cup {Suffixed("Diff_Summary", i) : i \in 1..MaxSuffix}

\* The workbooks over SummaryNames, in every order.
SummaryWorkbooks ==
    UNION {{[i \in 1..k |-> Entry(f[i], EmptySheet)] :
                f \in {g \in [1..k -> SummaryNames] :
                          \A x \in 1..k, y \in 1..k : x # y => g[x] # g[y]}} :
           k \in 1..Cardinality(SummaryNames)}

SummaryDiffs ==
    {<<>>,
     <<DiffRecord("Data", <<>>, "missing_sheet_new", NoneV, NoneV)>>,
     <<DiffRecord("Data", <<>>, "missing_sheet_base", NoneV, NoneV),
       DiffRecord("Diff_Summary", <<"A", "1">>, "added", NoneV, IntV(1))>>}

MainWorkbooks ==
    {<<Entry("A", OneCell(1, 2, StrV(<<"a">>)))>>,
     <<Entry("B", OneCell(2, 1, StrV(<<"a">>))),
       Entry("A", OneCell(1, 2, StrV(<<>>)))>>}

\* The values of --include-sheets and --exclude-sheets.
ArgOptions == {<<>>, << <<"", "">> >>, << <<"A", "">> >>}

IdleEqual ==
    /\ arg_a = NoneV
    /\ arg_b = NoneV
    /\ eq_ab = <<>>
    /\ eq_ba = <<>>

IdleCells ==
    /\ base_ws = EmptySheet
    /\ new_ws = EmptySheet
    /\ yielded = <<>>

IdleFiles ==
    /\ base_file = <<>>
    /\ new_file = <<>>

IdleOptions ==
    /\ include_sheets = <<>>
    /\ exclude_sheets = <<>>
    /\ highlight = TRUE

\* The defaults of compare_workbooks (lines 231-233).
DefaultConfig ==
    /\ tolerance = 0
    /\ trim_whitespace = FALSE
    /\ case_insensitive = FALSE

NothingLoaded ==
    /\ base_wb = <<>>
    /\ new_wb_values = <<>>

NothingRun ==
    /\ new_wb_out = <<>>
    /\ compared = <<>>
    /\ diffs = <<>>

NothingWritten ==
    /\ out_file = <<>>
    /\ out_writes = 0

IdleMain ==
    /\ arg_include = <<>>
    /\ arg_exclude = <<>>
    /\ error = ""
    /\ exit_code = <<>>

(***************************************************************************)
(* SpecEqual: equal_values applied to every pair of values, in both        *)
(* argument orders, under every configuration.                             *)
(***************************************************************************)
InitEqual ==
    /\ pc = "start"
    /\ arg_a \in Values
    /\ arg_b \in Values
    /\ tolerance \in Tolerances
    /\ trim_whitespace \in BOOLEAN
    /\ case_insensitive \in BOOLEAN
    /\ eq_ab = <<>>
    /\ eq_ba = <<>>
    /\ IdleCells /\ IdleFiles /\ IdleOptions /\ NothingLoaded
    /\ NothingRun /\ NothingWritten /\ IdleMain

EvalAB ==
    /\ eq_ab = <<>>
    /\ eq_ab' = <<equal_values(arg_a, arg_b, tolerance,
                               trim_whitespace, case_insensitive)>>
    /\ UNCHANGED <<pc, arg_a, arg_b, eq_ba, cfgVars, cellVars, fileVars,
                   optVars, loadVars, runVars, outVars, mainVars>>

EvalBA ==
    /\ eq_ba = <<>>
    /\ eq_ba' = <<equal_values(arg_b, arg_a, tolerance,
                               trim_whitespace, case_insensitive)>>
    /\ UNCHANGED <<pc, arg_a, arg_b, eq_ab, cfgVars, cellVars, fileVars,
                   optVars, loadVars, runVars, outVars, mainVars>>

NextEqual == EvalAB \/ EvalBA

SpecEqual == InitEqual /\ [][NextEqual]_vars

(***************************************************************************)
(* SpecCells: iter_diff_cells run to exhaustion on every pair of sheets    *)
(* (at most one of the two declaring a merged range) under every           *)
(* configuration.                                                          *)
(***************************************************************************)
InitCells ==
    /\ pc = "start"
    /\ base_ws \in Sheets
    /\ new_ws \in Sheets
    /\ base_ws.merged_cells = {} \/ new_ws.merged_cells = {}
    /\ tolerance \in CellTolerances
    /\ trim_whitespace \in BOOLEAN
    /\ case_insensitive \in BOOLEAN
    /\ yielded = <<>>
    /\ IdleEqual /\ IdleFiles /\ IdleOptions /\ NothingLoaded
    /\ NothingRun /\ NothingWritten /\ IdleMain

IterDiffCells ==
    /\ pc = "start"
    /\ yielded' = iter_diff_cells(base_ws, new_ws, tolerance,
                                  trim_whitespace, case_insensitive)
    /\ pc' = "done"
    /\ UNCHANGED <<eqVars, cfgVars, base_ws, new_ws, fileVars, optVars,
                   loadVars, runVars, outVars, mainVars>>

NextCells == IterDiffCells

SpecCells == InitCells /\ [][NextCells]_vars

(***************************************************************************)
(* SpecSummary: add_summary_sheet on every output workbook over            *)
(* SummaryNames.  new_wb_values keeps the sheets the file came with.       *)
(***************************************************************************)
InitSummary ==
    /\ pc = "start"
    /\ new_file \in SummaryWorkbooks
    /\ base_file = <<>>
    /\ base_wb = <<>>
    /\ new_wb_values = new_file
    /\ new_wb_out = new_file
    /\ compared = <<>>
    /\ diffs \in SummaryDiffs
    /\ DefaultConfig
    /\ IdleEqual /\ IdleCells /\ IdleOptions /\ NothingWritten /\ IdleMain

AddSummarySheet ==
    /\ pc = "start"
    /\ new_wb_out' = add_summary_sheet(new_wb_out, diffs)
    /\ pc' = "done"
    /\ UNCHANGED <<eqVars, cfgVars, cellVars, fileVars, optVars, loadVars,
                   compared, diffs, outVars, mainVars>>

NextSummary == AddSummarySheet

SpecSummary == InitSummary /\ [][NextSummary]_vars

(***************************************************************************)
(* SpecCompare: compare_workbooks called on every pair of workbook files   *)
(* with every include and exclude option, absent and empty included, and   *)
(* the defaults of its other parameters.                                   *)
(***************************************************************************)
InitCompare ==
    /\ pc = "start"
    /\ base_file \in CompareWorkbooksIn
    /\ new_file \in CompareWorkbooksIn
    /\ include_sheets \in IncludeOptions
    /\ exclude_sheets \in ExcludeOptions
    /\ highlight = TRUE
    /\ DefaultConfig
    /\ IdleEqual /\ IdleCells /\ NothingLoaded /\ NothingRun
    /\ NothingWritten /\ IdleMain

CompareWorkbooks ==
    /\ pc = "start"
    /\ LET names == to_compare(base_file, new_file,
                               include_sheets, exclude_sheets)
           ds == CompareDiffs(base_file, new_file,
                              include_sheets, exclude_sheets,
                              tolerance, trim_whitespace, case_insensitive)
           out == add_summary_sheet(
                      Highlighted(new_file, base_file, new_file, names,
                                  highlight, tolerance, trim_whitespace,
                                  case_insensitive), ds)
       IN  /\ base_wb' = base_file
           /\ new_wb_values' = new_file
           /\ compared' = names
           /\ diffs' = ds
           /\ new_wb_out' = out
           /\ out_file' = <<out>>
           /\ out_writes' = out_writes + 1
    /\ pc' = "done"
    /\ UNCHANGED <<eqVars, cfgVars, cellVars, fileVars, optVars, mainVars>>

NextCompare == CompareWorkbooks

SpecCompare == InitCompare /\ [][NextCompare]_vars

(***************************************************************************)
(* Spec: one run of main, step by step.  The file system and the library   *)
(* decide whether a path is a file and whether a load, the comparison, the *)
(* summary or the save raises.                                             *)
(***************************************************************************)
Init ==
    /\ pc = "start"
    /\ base_file \in MainWorkbooks
    /\ new_file \in MainWorkbooks
    /\ arg_include \in ArgOptions
    /\ arg_exclude \in ArgOptions
    /\ highlight \in BOOLEAN
    /\ include_sheets = <<>>
    /\ exclude_sheets = <<>>
    /\ error = ""
    /\ exit_code = <<>>
    /\ DefaultConfig
    /\ IdleEqual /\ IdleCells /\ NothingLoaded /\ NothingRun /\ NothingWritten

\* except Exception as e: ... return 1
Raise(step) ==
    /\ error' = step
    /\ exit_code' = <<1>>
    /\ pc' = "exit"

CheckBase ==
    /\ pc = "start"
    /\ \E isfile \in BOOLEAN :
          IF isfile THEN pc' = "check_new" /\ UNCHANGED exit_code
          ELSE pc' = "exit" /\ exit_code' = <<2>>
    /\ UNCHANGED <<eqVars, cfgVars, cellVars, fileVars, optVars, loadVars,
                   runVars, outVars, arg_include, arg_exclude, error>>

CheckNew ==
    /\ pc = "check_new"
    /\ \E isfile \in BOOLEAN :
          IF isfile THEN pc' = "parse" /\ UNCHANGED exit_code
          ELSE pc' = "exit" /\ exit_code' = <<2>>
    /\ UNCHANGED <<eqVars, cfgVars, cellVars, fileVars, optVars, loadVars,
                   runVars, outVars, arg_include, arg_exclude, error>>

ParseOptions ==
    /\ pc = "parse"
    /\ include_sheets' = parse_csv_set(arg_include)
    /\ exclude_sheets' = parse_csv_set(arg_exclude)
    /\ pc' = "load_base"
    /\ UNCHANGED <<eqVars, cfgVars, cellVars, fileVars, highlight, loadVars,
                   runVars, outVars, mainVars>>

LoadBase ==
    /\ pc = "load_base"
    /\ \E ok \in BOOLEAN :
          IF ok THEN /\ base_wb' = base_file
                     /\ pc' = "load_new_values"
                     /\ UNCHANGED <<error, exit_code>>
          ELSE Raise("load_base") /\ UNCHANGED base_wb
    /\ UNCHANGED <<eqVars, cfgVars, cellVars, fileVars, optVars,
                   new_wb_values, runVars, outVars, arg_include, arg_exclude>>

LoadNewValues ==
    /\ pc = "load_new_values"
    /\ \E ok \in BOOLEAN :
          IF ok THEN /\ new_wb_values' = new_file
                     /\ pc' = "load_new_out"
                     /\ UNCHANGED <<error, exit_code>>
          ELSE Raise("load_new_values") /\ UNCHANGED new_wb_values
    /\ UNCHANGED <<eqVars, cfgVars, cellVars, fileVars, optVars,
                   base_wb, runVars, outVars, arg_include, arg_exclude>>

\* LoadNewOut writing the copy out as soon as it is loaded.
LoadNewOut_saving ==
    /\ pc = "load_new_out"
    /\ new_wb_out' = new_file
    /\ out_file' = <<new_file>>
    /\ out_writes' = out_writes + 1
    /\ pc' = "compare"
    /\ UNCHANGED <<eqVars, cfgVars, cellVars, fileVars, optVars, loadVars,
                   compared, diffs, mainVars>>

LoadNewOut ==
    /\ pc = "load_new_out"
    /\ \E ok \in BOOLEAN :
          IF ok THEN /\ new_wb_out' = new_file
                     /\ pc' = "compare"
                     /\ UNCHANGED <<error, exit_code>>
          ELSE Raise("load_new_out") /\ UNCHANGED new_wb_out
    /\ UNCHANGED <<eqVars, cfgVars, cellVars, fileVars, optVars, loadVars,
                   compared, diffs, outVars, arg_include, arg_exclude>>

Compare ==
    /\ pc = "compare"
    /\ \E ok \in BOOLEAN :
          IF ok
          THEN LET names == to_compare(base_wb, new_wb_values,
                                       include_sheets, exclude_sheets)
               IN  /\ compared' = names
                   /\ diffs' = CompareDiffs(base_wb, new_wb_values,
                                            include_sheets, exclude_sheets,
                                            tolerance, trim_whitespace,
                                            case_insensitive)
                   /\ new_wb_out' = Highlighted(new_wb_out, base_wb,
                                                new_wb_values, names, highlight,
                                                tolerance, trim_whitespace,
                                                case_insensitive)
                   /\ pc' = "summary"
                   /\ UNCHANGED <<error, exit_code>>
          ELSE Raise("compare") /\ UNCHANGED runVars
    /\ UNCHANGED <<eqVars, cfgVars, cellVars, fileVars, optVars, loadVars,
                   outVars, arg_include, arg_exclude>>

AddSummary ==
    /\ pc = "summary"
    /\ \E ok \in BOOLEAN :
          IF ok THEN /\ new_wb_out' = add_summary_sheet(new_wb_out, diffs)
                     /\ pc' = "save"
                     /\ UNCHANGED <<error, exit_code>>
          ELSE Raise("summary") /\ UNCHANGED new_wb_out
    /\ UNCHANGED <<eqVars, cfgVars, cellVars, fileVars, optVars, loadVars,
                   compared, diffs, outVars, arg_include, arg_exclude>>

\* os.makedirs and new_wb_out.save(out_path): the save completes, or
\* raises before the file is opened, or raises leaving a truncated file.
Save ==
    /\ pc = "save"
    /\ \E outcome \in {"saved", "refused", "truncated"} :
          CASE outcome = "saved" ->
                  /\ out_file' = <<new_wb_out>>
                  /\ out_writes' = out_writes + 1
                  /\ pc' = "return"
                  /\ UNCHANGED <<error, exit_code>>
            [] outcome = "refused" ->
                  Raise("save") /\ UNCHANGED outVars
            [] outcome = "truncated" ->
                  /\ Raise("save")
                  /\ out_file' = << <<>> >>
                  /\ out_writes' = out_writes + 1
    /\ UNCHANGED <<eqVars, cfgVars, cellVars, fileVars, optVars, loadVars,
                   runVars, arg_include, arg_exclude>>

Return ==
    /\ pc = "return"
    /\ exit_code' = <<0>>
    /\ pc' = "exit"
    /\ UNCHANGED <<eqVars, cfgVars, cellVars, fileVars, optVars, loadVars,
                   runVars, outVars, arg_include, arg_exclude, error>>

Next ==
    \/ CheckBase
    \/ CheckNew
    \/ ParseOptions
    \/ LoadBase
    \/ LoadNewValues
    \/ LoadNewOut
    \/ Compare
    \/ AddSummary
    \/ Save
    \/ Return

Spec == Init /\ [][Next]_vars

(***************************************************************************)
(* Properties of equal_values.                                             *)
(***************************************************************************)

C8_Symmetric ==
    (eq_ab # <<>> /\ eq_ba # <<>>) => eq_ab = eq_ba

\* Two different texts were found equal in both orders, by trimming.
C8_Witness ==
    /\ eq_ab = <<TRUE>>
    /\ eq_ba = <<TRUE>>
    /\ arg_a.t = "str"
    /\ arg_b.t = "str"
    /\ arg_a # arg_b
    /\ trim_whitespace
    /\ ~case_insensitive

(***************************************************************************)
(* Properties of iter_diff_cells.                                          *)
(***************************************************************************)
RawEmpty(v) == v = NoneV \/ v = StrV(<<>>)

UnionRows == 1..Max(base_ws.max_row, new_ws.max_row)
UnionCols == 1..Max(base_ws.max_col, new_ws.max_col)

\* The non-anchor coordinates of the ranges either sheet declares.
NonAnchor(r, c) ==
    \E mr \in base_ws.merged_cells \cup new_ws.merged_cells :
        /\ r \in mr.min_row..mr.max_row
        /\ c \in mr.min_col..mr.max_col
        /\ <<r, c>> # <<mr.min_row, mr.min_col>>

\* The indices of the yielded tuples at coordinate (r, c).
Hits(r, c) ==
    {i \in DOMAIN yielded : yielded[i][1] = r /\ yielded[i][2] = c}

\* The status the raw values at (r, c) call for.
Expected(r, c) ==
    LET va == value_at(base_ws, r, c)
        vb == value_at(new_ws, r, c)
    IN  IF RawEmpty(va) /\ RawEmpty(vb) THEN "skip"
        ELSE IF RawEmpty(va) THEN "added"
        ELSE IF RawEmpty(vb) THEN "removed"
        ELSE IF equal_values(va, vb, tolerance,
                             trim_whitespace, case_insensitive) THEN "skip"
        ELSE "changed"

\* C3: every coordinate of the union rectangle that is no merged non-anchor
\* gets at most one tuple, and its status is decided by the raw values: both
\* empty -> none, empty in base only -> added, empty in new only -> removed,
\* both non-empty -> changed iff equal_values is false.
C3_Classification ==
    pc = "done" =>
        \A r \in UnionRows, c \in UnionCols :
            ~NonAnchor(r, c) =>
                /\ Cardinality(Hits(r, c)) <= 1
                /\ Expected(r, c) = "skip" => Hits(r, c) = {}
                /\ Expected(r, c) # "skip" =>
                       \E i \in Hits(r, c) : yielded[i][3] = Expected(r, c)

\* With trim_whitespace set, a whitespace-only text against an empty cell
\* was yielded as removed.
C3_Witness ==
    /\ pc = "done"
    /\ trim_whitespace
    /\ \E i \in DOMAIN yielded :
          /\ yielded[i][3] = "removed"
          /\ value_at(base_ws, yielded[i][1], yielded[i][2]) = StrV(<<" ">>)
          /\ RawEmpty(value_at(new_ws, yielded[i][1], yielded[i][2]))

\* C4: every yielded coordinate lies in the union of the used bounds and is
\* no non-anchor coordinate of a merged range of either sheet.
C4_InBoundsNotMerged ==
    pc = "done" =>
        \A i \in DOMAIN yielded :
            /\ yielded[i][1] \in UnionRows
            /\ yielded[i][2] \in UnionCols
            /\ ~NonAnchor(yielded[i][1], yielded[i][2])

\* The sheets differ at a merged non-anchor coordinate below the first row,
\* and the generator yielded a tuple elsewhere but none there.
C4_Witness ==
    /\ pc = "done"
    /\ yielded # <<>>
    /\ \E r \in UnionRows, c \in UnionCols :
          /\ r > 1
          /\ NonAnchor(r, c)
          /\ ~RawEmpty(value_at(base_ws, r, c))
          /\ RawEmpty(value_at(new_ws, r, c))
          /\ Hits(r, c) = {}

(***************************************************************************)
(* Properties of add_summary_sheet.                                        *)
(***************************************************************************)
TitledSummary == {i \in DOMAIN new_wb_out : new_wb_out[i].title = "Diff_Summary"}

\* C1: after add_summary_sheet the first sheet is titled exactly
\* "Diff_Summary" and is the freshly built summary, a sheet of that name the
\* workbook came with having been replaced, so that exactly one sheet bears
\* the title.
C1_SummaryReplaces ==
    pc = "done" =>
        /\ new_wb_out[1].title = "Diff_Summary"
        /\ new_wb_out[1].summary = SummaryRows(diffs)
        /\ Cardinality(TitledSummary) = 1

\* C2: after add_summary_sheet the summary is the first sheet, the sheet
\* names are pairwise distinct, and the summary is named "Diff_Summary" if
\* that name was free and otherwise "Diff_Summary_i" for the least i >= 1
\* whose name was free.
C2_UniqueSummaryName ==
    pc = "done" =>
        LET before == sheetnames(new_wb_values)
            title == new_wb_out[1].title
        IN  /\ new_wb_out[1].summary = SummaryRows(diffs)
            /\ \A i \in DOMAIN new_wb_out, j \in DOMAIN new_wb_out :
                  i # j => new_wb_out[i].title # new_wb_out[j].title
            /\ "Diff_Summary" \notin before => title = "Diff_Summary"
            /\ "Diff_Summary" \in before =>
                  \E i \in 1..(Cardinality(before) + 1) :
                      /\ title = Suffixed("Diff_Summary", i)
                      /\ title \notin before
                      /\ \A j \in 1..(i - 1) :
                            Suffixed("Diff_Summary", j) \in before

\* "Diff_Summary" and "Diff_Summary_1" were taken and the summary was
\* inserted first as "Diff_Summary_2".
C2_Witness ==
    /\ pc = "done"
    /\ {"Diff_Summary", "Diff_Summary_1"} \subseteq sheetnames(new_wb_values)
    /\ new_wb_out[1].title = "Diff_Summary_2"
    /\ Len(new_wb_out) = Len(new_wb_values) + 1

(***************************************************************************)
(* Properties of compare_workbooks.                                        *)
(***************************************************************************)
IsSheetLevel(d) == d.status \in {"missing_sheet_new", "missing_sheet_base"}

RowOf(d) == ParseInt(SelectSeq(d.cell, IsDigit))
ColOf(d) == column_index_from_string(SelectSeq(d.cell, IsAlpha))

\* The sheet passes the filters as the code applies them.
Unfiltered(s) ==
    /\ include_sheets = <<>> \/ include_sheets[1] = {} \/ s \in include_sheets[1]
    /\ exclude_sheets = <<>> \/ s \notin exclude_sheets[1]

OnlyRecordOf(s, status) ==
    /\ Cardinality({i \in DOMAIN diffs : diffs[i].sheet = s}) = 1
    /\ \E i \in DOMAIN diffs :
          diffs[i] = DiffRecord(s, <<>>, status, NoneV, NoneV)

\* C5: each unfiltered sheet only in base has exactly one record, a
\* missing_sheet_new one, and each only in new exactly one missing_sheet_base
\* one, with empty coordinate and no values; sheet-level records precede
\* cell-level ones, which come in sorted sheet order and row-major within a
\* sheet.
C5_RecordOrder ==
    pc = "done" =>
        /\ \A s \in sheetnames(base_file) \ sheetnames(new_file) :
              Unfiltered(s) => OnlyRecordOf(s, "missing_sheet_new")
        /\ \A s \in sheetnames(new_file) \ sheetnames(base_file) :
              Unfiltered(s) => OnlyRecordOf(s, "missing_sheet_base")
        /\ \A i \in DOMAIN diffs, j \in DOMAIN diffs :
              i < j =>
                /\ IsSheetLevel(diffs[j]) => IsSheetLevel(diffs[i])
                /\ (~IsSheetLevel(diffs[i]) /\ ~IsSheetLevel(diffs[j])) =>
                      \/ Rank(diffs[i].sheet) < Rank(diffs[j].sheet)
                      \/ /\ diffs[i].sheet = diffs[j].sheet
                         /\ \/ RowOf(diffs[i]) < RowOf(diffs[j])
                            \/ /\ RowOf(diffs[i]) = RowOf(diffs[j])
                               /\ ColOf(diffs[i]) < ColOf(diffs[j])

\* One sheet only in base, one only in new, and a common sheet with two
\* cell-level records.
C5_Witness ==
    /\ pc = "done"
    /\ \E i \in DOMAIN diffs : diffs[i].status = "missing_sheet_new"
    /\ \E i \in DOMAIN diffs : diffs[i].status = "missing_sheet_base"
    /\ \E i \in DOMAIN diffs, j \in DOMAIN diffs :
          /\ i < j
          /\ ~IsSheetLevel(diffs[i])
          /\ diffs[i].sheet = diffs[j].sheet

ComparedSet == {compared[i] : i \in DOMAIN compared}

CommonSheets == sheetnames(base_file) \cap sheetnames(new_file)

Excluded(s) == exclude_sheets # <<>> /\ s \in exclude_sheets[1]

\* C6 as stated: every supplied include set, the empty one too, restricts
\* the comparison and the records to its members.
C6_SuppliedIncludeRestricts ==
    pc = "done" =>
        LET included(s) == include_sheets = <<>> \/ s \in include_sheets[1]
            expected == {s \in CommonSheets : included(s) /\ ~Excluded(s)}
        IN  /\ ComparedSet = expected
            /\ Len(compared) = Cardinality(expected)
            /\ \A i \in DOMAIN diffs :
                  included(diffs[i].sheet) /\ ~Excluded(diffs[i].sheet)

\* C6 amended: an include set restricts the comparison and the records to
\* its members when it is supplied and not empty; an absent or empty include
\* set restricts nothing; the exclude set is subtracted.
C6_NonEmptyIncludeRestricts ==
    pc = "done" =>
        LET included(s) ==
                \/ include_sheets = <<>>
                \/ include_sheets[1] = {}
                \/ s \in include_sheets[1]
            expected == {s \in CommonSheets : included(s) /\ ~Excluded(s)}
        IN  /\ ComparedSet = expected
            /\ Len(compared) = Cardinality(expected)
            /\ \A i \in DOMAIN diffs :
                  included(diffs[i].sheet) /\ ~Excluded(diffs[i].sheet)

\* An empty include set was supplied, sheets were compared all the same,
\* and the exclude set removed a common sheet.
C6_Witness ==
    /\ pc = "done"
    /\ include_sheets = <<{}>>
    /\ compared # <<>>
    /\ \E s \in CommonSheets : Excluded(s)

\* The records of sheet s at coordinate (r, c).
RecordsAt(s, r, c) ==
    {i \in DOMAIN diffs : diffs[i].sheet = s /\ diffs[i].cell = cell_coord(r, c)}

\* Every compared coordinate, with the raw values the two sheets hold there.
ComparedCells ==
    {[sheet |-> s, r |-> r, c |-> c,
      va |-> value_at(SheetOf(base_file, s).ws, r, c),
      vb |-> value_at(SheetOf(new_file, s).ws, r, c)] :
        s \in ComparedSet, r \in RowRange, c \in ColRange}

\* C9 as stated: an added record has old value None and the raw new value;
\* a removed record has the raw old value and new value None.
C9_EmptySideIsNone ==
    pc = "done" =>
        \A x \in ComparedCells :
            /\ (RawEmpty(x.va) /\ ~RawEmpty(x.vb)) =>
                  /\ Cardinality(RecordsAt(x.sheet, x.r, x.c)) = 1
                  /\ \A i \in RecordsAt(x.sheet, x.r, x.c) :
                        diffs[i] = DiffRecord(x.sheet, cell_coord(x.r, x.c),
                                              "added", NoneV, x.vb)
            /\ (~RawEmpty(x.va) /\ RawEmpty(x.vb)) =>
                  /\ Cardinality(RecordsAt(x.sheet, x.r, x.c)) = 1
                  /\ \A i \in RecordsAt(x.sheet, x.r, x.c) :
                        diffs[i] = DiffRecord(x.sheet, cell_coord(x.r, x.c),
                                              "removed", x.va, NoneV)

\* C9 amended: an added or removed record carries the raw values of both
\* cells, so its empty side is None or the empty string, whichever the cell
\* holds.
C9_EmptySideIsRaw ==
    pc = "done" =>
        \A x \in ComparedCells :
            /\ (RawEmpty(x.va) /\ ~RawEmpty(x.vb)) =>
                  /\ Cardinality(RecordsAt(x.sheet, x.r, x.c)) = 1
                  /\ \A i \in RecordsAt(x.sheet, x.r, x.c) :
                        diffs[i] = DiffRecord(x.sheet, cell_coord(x.r, x.c),
                                              "added", x.va, x.vb)
            /\ (~RawEmpty(x.va) /\ RawEmpty(x.vb)) =>
                  /\ Cardinality(RecordsAt(x.sheet, x.r, x.c)) = 1
                  /\ \A i \in RecordsAt(x.sheet, x.r, x.c) :
                        diffs[i] = DiffRecord(x.sheet, cell_coord(x.r, x.c),
                                              "removed", x.va, x.vb)

\* A base cell holding the empty string was reported as added, with the
\* empty string as old value.
C9_Witness ==
    /\ pc = "done"
    /\ \E i \in DOMAIN diffs :
          /\ diffs[i].status = "added"
          /\ diffs[i].old = StrV(<<>>)
          /\ diffs[i].new = StrV(<<"a">>)

(***************************************************************************)
(* Properties of main.                                                     *)
(***************************************************************************)

\* C10: the output is written at most once, and only once the records are
\* collected and the summary is built; a failure before the save leaves no
\* output and exits 1; a missing input exits 2 before anything is loaded or
\* compared; exit 0 comes only after the output is written.
C10_WriteLastOrNotAtAll ==
    /\ out_writes <= 1
    /\ out_writes > 0 =>
          /\ pc \in {"return", "exit"}
          /\ diffs = CompareDiffs(base_wb, new_wb_values,
                                  include_sheets, exclude_sheets, tolerance,
                                  trim_whitespace, case_insensitive)
          /\ new_wb_out # <<>>
          /\ new_wb_out[1].summary = SummaryRows(diffs)
          /\ out_file \in {<<new_wb_out>>, << <<>> >>}
    /\ error # "" => pc = "exit" /\ exit_code = <<1>>
    /\ (error \in {"load_base", "load_new_values", "load_new_out",
                   "compare", "summary"}) => NothingWritten
    /\ exit_code = <<2>> => NothingLoaded /\ NothingRun /\ NothingWritten
    /\ exit_code = <<0>> => out_writes = 1 /\ out_file = <<new_wb_out>>

\* main returned 0 with the output written.
C10_Witness ==
    /\ pc = "exit"
    /\ exit_code = <<0>>
    /\ out_writes = 1
    /\ diffs # <<>>

====
